---- MODULE Spec2Model ----
(***************************************************************************)
(* Model of src/cache.py: LRUCache (capacity-bounded, OrderedDict based)   *)
(* and TTLCache (lifetime-bounded, dict based).                            *)
(*                                                                         *)
(* One cache instance is constructed (cls says of which class) and then    *)
(* driven by an arbitrary sequence of mapping calls.  Every call happens   *)
(* at a wall-clock time now' >= now; the stores hold (value, timestamp)    *)
(* tuples exactly as the code does.  Both stores are insertion ordered     *)
(* (OrderedDict / dict) and are modelled as sequences of entries.          *)
(***************************************************************************)
EXTENDS Integers, Sequences, FiniteSets

\* ---------------------------------------------------------------- bounds
NumVals == 2
MaxSize == 2
MaxTtl  == 1
MaxTime == 2

\* the keys of the calls (capacity 2 with three keys, as in the documented examples)
Keys     == {"a", "b", "c"}
\* TTLCache has no capacity: two keys (one expired, one fresh) reach every path
TTLKeys  == {"a", "b"}
NoKey    == "-"
Values   == 1..NumVals
None     == 0
\* defaults a caller passes to get(key, default): None or a value never stored
Defaults == {None, NumVals + 1}
Times    == 0..MaxTime

VARIABLES
    cls,        \* class of the constructed instance: "LRUCache" or "TTLCache"
    max_size,   \* LRUCache.max_size
    data,       \* LRUCache.data : OrderedDict key -> (value, timestamp), head = LRU
    _ttl,       \* TTLCache._ttl
    _data,      \* TTLCache._data : dict key -> (value, timestamp), insertion order
    now,        \* time.time() at the last call
    op,         \* the last call
    key,        \* its key argument (None when it takes none)
    val,        \* its second argument: the value of set, the default of get
    res,        \* what it returned or raised
    lastUse,    \* history: LRUCache, per stored key the time of its last successful set/get
    setLog,     \* history: LRUCache, the distinct keys set so far in order of their last
                \*          set, kept while only set has been called
    lastSet,    \* history: TTLCache, per key its last set (not since deleted)
    follows,    \* history: the last call is a get of the key that the call before it
                \*          set (and that set returned)
    iterator    \* the iterator object a caller holds on LRUCache.data and steps lazily

vars == <<cls, max_size, data, _ttl, _data, now, op, key, val, res,
          lastUse, setLog, lastSet, follows, iterator>>

lruVars == <<max_size, data, lastUse, setLog, iterator>>
ttlVars == <<_ttl, _data, lastSet>>

\* ------------------------------------------------- ordered-dict primitives
Entry(k, v, t) == [key |-> k, value |-> v, ts |-> t]

\* key in d
Has(d, k) == \E i \in 1..Len(d) : d[i].key = k

\* d[key]
Lookup(d, k) == d[CHOOSE i \in 1..Len(d) : d[i].key = k]

\* del d[key] / d.pop(key): the other entries keep their order
Without(d, k) == SelectSeq(d, LAMBDA e : e.key # k)

\* OrderedDict.move_to_end(key)
move_to_end(d, k) == Append(Without(d, k), Lookup(d, k))

\* OrderedDict.popitem(last=False): drops the head
popitem(d) == Tail(d)

\* whether move_to_end(key) relinks a node: the last key stays where it is, untouched
Moves(d, k) == Has(d, k) /\ d[Len(d)].key # k

\* d[key] = (value, t): an existing key keeps its position, a new one goes last
Assign(d, k, v, t) ==
    IF Has(d, k)
    THEN [i \in 1..Len(d) |-> IF d[i].key = k THEN Entry(k, v, t) ELSE d[i]]
    ELSE Append(d, Entry(k, v, t))

\* list(d): the keys in store order
KeySeq(d) == [i \in 1..Len(d) |-> d[i].key]

KeySet(d) == {d[i].key : i \in 1..Len(d)}

\* d.items() rendered by __repr__ as "k: v" pairs (the timestamp is not shown)
ItemSeq(d) == [i \in 1..Len(d) |-> <<d[i].key, d[i].value>>]

\* ------------------------------------------------------------ call results
\* exc: the exception raised ("" when the call returns); value, flag, keys, items: the
\* returned value, bool, key sequence or rendered pairs; popped: the key popitem() took;
\* swept: the keys_to_remove list of _expire_all; hit: the entry TTLCache.__delitem__
\* found under its key
NoHit == [has |-> FALSE, ts |-> 0]

NoRes == [exc |-> "", value |-> None, flag |-> FALSE, keys |-> <<>>, items |-> <<>>,
          popped |-> NoKey, swept |-> <<>>, hit |-> NoHit]

\* ---------------------------------------------------------------- LRUCache
\* LRUCache.__init__: max_size is stored as given, nothing is raised
LRUCache_init(n) == [exc |-> "", max_size |-> n, data |-> <<>>]

\* faulty variant: a full cache never evicts
LRUCache_setitem_noevict(d, cap, k, v, t) ==
    [data |-> Assign(IF Has(d, k) THEN move_to_end(d, k) ELSE d, k, v, t),
     exc |-> "", popped |-> NoKey, mutated |-> Moves(d, k)]

\* faulty variant: a set of a stored key leaves it where it is (no move_to_end)
LRUCache_setitem_nomove(d, cap, k, v, t) ==
    IF Has(d, k)
    THEN [data |-> Assign(d, k, v, t), exc |-> "", popped |-> NoKey, mutated |-> FALSE]
    ELSE IF Len(d) >= cap /\ Len(d) > 0
         THEN [data |-> Assign(popitem(d), k, v, t), exc |-> "", popped |-> Head(d).key,
               mutated |-> TRUE]
         ELSE [data |-> Assign(d, k, v, t), exc |-> "", popped |-> NoKey, mutated |-> TRUE]

\* faulty variant: the capacity test comes first, so a full cache evicts on every set
LRUCache_setitem_fullfirst(d, cap, k, v, t) ==
    IF Len(d) >= cap /\ Len(d) > 0
    THEN LET rest == popitem(d)
         IN  [data |-> Assign(IF Has(rest, k) THEN move_to_end(rest, k) ELSE rest, k, v, t),
              exc |-> "", popped |-> Head(d).key, mutated |-> TRUE]
    ELSE [data |-> Assign(IF Has(d, k) THEN move_to_end(d, k) ELSE d, k, v, t),
          exc |-> "", popped |-> NoKey, mutated |-> Moves(d, k)]

\* faulty variant: a set of a stored key promotes it but keeps the value it had
LRUCache_setitem_keepold(d, cap, k, v, t) ==
    IF Has(d, k)
    THEN [data |-> Assign(move_to_end(d, k), k, Lookup(d, k).value, t), exc |-> "",
          popped |-> NoKey, mutated |-> Moves(d, k)]
    ELSE IF Len(d) >= cap
         THEN IF Len(d) = 0
              THEN [data |-> d, exc |-> "KeyError", popped |-> NoKey, mutated |-> FALSE]
              ELSE [data |-> Assign(popitem(d), k, v, t), exc |-> "",
                    popped |-> Head(d).key, mutated |-> TRUE]
         ELSE [data |-> Assign(d, k, v, t), exc |-> "", popped |-> NoKey,
               mutated |-> TRUE]

\* LRUCache.__setitem__: result store and exception ("" when it returns)
LRUCache_setitem(d, cap, k, v, t) ==
    IF Has(d, k)
    THEN [data |-> Assign(move_to_end(d, k), k, v, t), exc |-> "", popped |-> NoKey,
          mutated |-> Moves(d, k)]
    ELSE IF Len(d) >= cap
         THEN IF Len(d) = 0
              THEN \* popitem() on an empty dict raises before the assignment
                   [data |-> d, exc |-> "KeyError", popped |-> NoKey, mutated |-> FALSE]
              ELSE [data |-> Assign(popitem(d), k, v, t), exc |-> "",
                    popped |-> Head(d).key, mutated |-> TRUE]
         ELSE [data |-> Assign(d, k, v, t), exc |-> "", popped |-> NoKey,
               mutated |-> TRUE]

\* faulty variant: a get returns the value and leaves the order alone
LRUCache_getitem_nopromote(d, cap, k, t) ==
    IF Has(d, k)
    THEN [data |-> d, exc |-> "", popped |-> NoKey, mutated |-> FALSE,
          value |-> Lookup(d, k).value]
    ELSE [data |-> d, exc |-> "KeyError", popped |-> NoKey, mutated |-> FALSE,
          value |-> None]

\* faulty variant: the entry is set again without being popped first, by the capacity path
LRUCache_getitem_nopop(d, cap, k, t) ==
    IF Has(d, k)
    THEN LET value == Lookup(d, k).value
             rest  == IF Len(d) >= cap THEN popitem(d) ELSE d
         IN  [data |-> Assign(Without(rest, k), k, value, t), exc |-> "", mutated |-> TRUE,
              popped |-> IF Len(d) >= cap THEN Head(d).key ELSE NoKey, value |-> value]
    ELSE [data |-> d, exc |-> "KeyError", popped |-> NoKey, mutated |-> FALSE,
          value |-> None]

\* LRUCache.__getitem__: pop the entry, set it again (self[key] = value)
LRUCache_getitem(d, cap, k, t) ==
    IF Has(d, k)
    THEN LET value == Lookup(d, k).value
             r     == LRUCache_setitem(Without(d, k), cap, k, value, t)
         IN  [data |-> r.data, exc |-> r.exc, popped |-> r.popped, mutated |-> TRUE,
              value |-> IF r.exc = "" THEN value ELSE None]
    ELSE [data |-> d, exc |-> "KeyError", popped |-> NoKey, mutated |-> FALSE,
          value |-> None]

\* LRUCache.get: self[key], the default on KeyError
LRUCache_get(d, cap, k, default, t) ==
    LET r == LRUCache_getitem(d, cap, k, t)
    IN  IF r.exc = "KeyError"
        THEN [data |-> r.data, exc |-> "", popped |-> r.popped, mutated |-> r.mutated,
              value |-> default]
        ELSE r

\* LRUCache.__delitem__
LRUCache_delitem(d, k) ==
    IF Has(d, k)
    THEN [data |-> Without(d, k), exc |-> "", mutated |-> TRUE]
    ELSE [data |-> d, exc |-> "KeyError", mutated |-> FALSE]

\* faulty variant: membership through __getitem__ (the inherited Mapping.__contains__),
\* which promotes the key
LRUCache_contains_viaget(d, k) ==
    [data |-> IF Has(d, k) THEN move_to_end(d, k) ELSE d, flag |-> Has(d, k)]

\* LRUCache.__contains__: the store is not touched
LRUCache_contains(d, k) == [data |-> d, flag |-> Has(d, k)]

\* LRUCache.__len__
LRUCache_len(d) == Len(d)

\* LRUCache.__iter__, consumed at once
LRUCache_iter(d) == KeySeq(d)

\* LRUCache.__repr__
LRUCache_repr(d) == ItemSeq(d)

\* No iterator object is held.
NoIter == [open |-> FALSE, cur |-> NoKey, size |-> 0, stale |-> FALSE, exc |-> "",
           snap |-> <<>>, out |-> <<>>]

\* LRUCache.__iter__ handing out iter(self.data) itself: an OrderedDict iterator that
\* remembers the key to yield next (cur), the size and the modification state of the
\* dict.  stale stands for "the dict's modification state differs from the remembered
\* one" (it only ever counts up).  History: snap, the keys at the call; out, the keys
\* yielded so far.
odictiter_new(d) ==
    [open |-> TRUE, cur |-> IF d = <<>> THEN NoKey ELSE d[1].key, size |-> Len(d),
     stale |-> FALSE, exc |-> "", snap |-> KeySeq(d), out |-> <<>>]

\* a call changed the links of the dict (node added, removed or moved)
Touched(it, mutated) == IF it.open /\ mutated THEN [it EXCEPT !.stale = TRUE] ELSE it

\* next(iterator): StopIteration once exhausted, RuntimeError when the dict was
\* mutated since iter(), else the remembered key, remembering its successor
odictiter_next(it, d) ==
    IF ~it.open \/ it.cur = NoKey
    THEN [it EXCEPT !.open = FALSE, !.exc = "StopIteration"]
    ELSE IF it.stale \/ it.size # Len(d)
         THEN [it EXCEPT !.open = FALSE, !.exc = "RuntimeError"]
         ELSE LET i == CHOOSE j \in 1..Len(d) : d[j].key = it.cur
              IN  [it EXCEPT !.cur = IF i = Len(d) THEN NoKey ELSE d[i + 1].key,
                             !.out = Append(@, it.cur), !.exc = ""]

\* the loop of the inherited items(): for key in self: yield (key, self[key])
RECURSIVE ItemsLoop(_, _, _, _, _)
ItemsLoop(it, d, cap, t, acc) ==
    LET n == odictiter_next(it, d)
    IN  IF n.exc = "StopIteration"
        THEN [data |-> d, exc |-> "", items |-> acc]
        ELSE IF n.exc = "RuntimeError"
             THEN [data |-> d, exc |-> "RuntimeError", items |-> acc]
             ELSE LET g == LRUCache_getitem(d, cap, it.cur, t)
                  IN  IF g.exc # ""
                      THEN [data |-> g.data, exc |-> g.exc, items |-> acc]
                      ELSE ItemsLoop(Touched(n, g.mutated), g.data, cap, t,
                                     Append(acc, <<it.cur, g.value>>))

\* list(cache.items()) through the inherited MutableMapping interface; items: the
\* pairs produced (up to the exception, when one is raised)
LRUCache_items(d, cap, t) == ItemsLoop(odictiter_new(d), d, cap, t, <<>>)

\* history: the time of the last successful set/get of the keys still stored
Used(lu, d, k, t) == [x \in Keys |-> IF x = k /\ Has(d, k) THEN t
                                     ELSE IF Has(d, x) THEN lu[x] ELSE 0]

\* history: k becomes the most recently set key
Logged(log, k) == Append(SelectSeq(log, LAMBDA x : x # k), k)

NoLog == [pure |-> FALSE, order |-> <<>>]

\* history: the call before this one set k and returned
FollowsSet(k) == op = "set" /\ res.exc = "" /\ key = k

\* ---------------------------------------------------------------- TTLCache
\* faulty variant: an overwrite keeps the timestamp of the entry it replaces
TTLCache_setitem_keepts(d, k, v, t) ==
    Assign(d, k, v, IF Has(d, k) THEN Lookup(d, k).ts ELSE t)

\* TTLCache.__init__: ttl is stored as given, nothing is raised
TTLCache_init(x) == [exc |-> "", _ttl |-> x, _data |-> <<>>]

\* TTLCache.__setitem__
TTLCache_setitem(d, k, v, t) == Assign(d, k, v, t)

\* faulty variant: no expiry test
TTLCache_getitem_nocheck(d, ttl, k, t) ==
    IF Has(d, k)
    THEN [data |-> d, exc |-> "", value |-> Lookup(d, k).value]
    ELSE [data |-> d, exc |-> "KeyError", value |-> None]

\* faulty variant: an expired entry raises but stays in the store
TTLCache_getitem_nodel(d, ttl, k, t) ==
    IF Has(d, k) /\ t - Lookup(d, k).ts <= ttl
    THEN [data |-> d, exc |-> "", value |-> Lookup(d, k).value]
    ELSE [data |-> d, exc |-> "KeyError", value |-> None]

\* faulty variant: a get drops every expired entry, not only the one under its key
TTLCache_getitem_sweeps(d, ttl, k, t) ==
    LET live == SelectSeq(d, LAMBDA e : t - e.ts <= ttl)
    IN  IF Has(live, k)
        THEN [data |-> live, exc |-> "", value |-> Lookup(live, k).value]
        ELSE [data |-> live, exc |-> "KeyError", value |-> None]

\* TTLCache.__getitem__: the value while fresh; an expired entry is deleted
TTLCache_getitem(d, ttl, k, t) ==
    IF Has(d, k)
    THEN LET value     == Lookup(d, k).value
             timestamp == Lookup(d, k).ts
         IN  IF t - timestamp <= ttl
             THEN [data |-> d, exc |-> "", value |-> value]
             ELSE [data |-> Without(d, k), exc |-> "KeyError", value |-> None]
    ELSE [data |-> d, exc |-> "KeyError", value |-> None]

\* faulty variant: None instead of the caller's default
TTLCache_get_none(d, ttl, k, default, t) ==
    IF Has(d, k)
    THEN IF t - Lookup(d, k).ts <= ttl
         THEN [data |-> d, exc |-> "", value |-> Lookup(d, k).value]
         ELSE [data |-> Without(d, k), exc |-> "", value |-> None]
    ELSE [data |-> d, exc |-> "", value |-> None]

\* TTLCache.get: self[key], the default on KeyError
TTLCache_get(d, ttl, k, default, t) ==
    LET r == TTLCache_getitem(d, ttl, k, t)
    IN  IF r.exc = "KeyError"
        THEN [data |-> r.data, exc |-> "", value |-> default]
        ELSE r

\* faulty variant: deleting an absent key passes silently
TTLCache_delitem_silent(d, k) == [data |-> Without(d, k), exc |-> ""]

\* faulty variant: the entry goes but KeyError is raised all the same
TTLCache_delitem_raises(d, k) == [data |-> Without(d, k), exc |-> "KeyError"]

\* TTLCache.__delitem__
TTLCache_delitem(d, k) ==
    IF Has(d, k)
    THEN [data |-> Without(d, k), exc |-> ""]
    ELSE [data |-> d, exc |-> "KeyError"]

\* faulty variant: an entry whose age is exactly ttl already counts as expired
TTLCache_contains_strict(d, ttl, k, t) ==
    IF Has(d, k)
    THEN IF t - Lookup(d, k).ts < ttl
         THEN [data |-> d, flag |-> TRUE]
         ELSE [data |-> Without(d, k), flag |-> FALSE]
    ELSE [data |-> d, flag |-> FALSE]

\* TTLCache.__contains__: an expired entry is deleted
TTLCache_contains(d, ttl, k, t) ==
    IF Has(d, k)
    THEN LET timestamp == Lookup(d, k).ts
         IN  IF t - timestamp <= ttl
             THEN [data |-> d, flag |-> TRUE]
             ELSE [data |-> Without(d, k), flag |-> FALSE]
    ELSE [data |-> d, flag |-> FALSE]

\* TTLCache._expire_all, the list it builds first
keys_to_remove(d, ttl, t) == KeySeq(SelectSeq(d, LAMBDA e : t - e.ts > ttl))

\* faulty variant: the sweep stops after the first expired key
TTLCache_expire_all_first(d, ttl, t) ==
    LET gone == keys_to_remove(d, ttl, t)
    IN  IF gone = <<>> THEN d ELSE Without(d, gone[1])

\* TTLCache._expire_all: one clock reading, then del of every listed key
TTLCache_expire_all(d, ttl, t) ==
    LET gone == keys_to_remove(d, ttl, t)
    IN  SelectSeq(d, LAMBDA e : \A i \in 1..Len(gone) : gone[i] # e.key)

\* TTLCache.__len__
TTLCache_len(d, ttl, t) ==
    LET live == TTLCache_expire_all(d, ttl, t)
    IN  [data |-> live, value |-> Len(live), swept |-> keys_to_remove(d, ttl, t)]

\* TTLCache.__iter__, consumed at once
TTLCache_iter(d, ttl, t) ==
    LET live == TTLCache_expire_all(d, ttl, t)
    IN  [data |-> live, keys |-> KeySeq(live), swept |-> keys_to_remove(d, ttl, t)]

\* TTLCache.__repr__
TTLCache_repr(d, ttl, t) ==
    LET live == TTLCache_expire_all(d, ttl, t)
    IN  [data |-> live, items |-> ItemSeq(live), swept |-> keys_to_remove(d, ttl, t)]

\* history: a key never set, or deleted since
NeverSet == [has |-> FALSE, t |-> 0, v |-> None, renewed |-> FALSE]

\* history: set(k, v) at time t; renewed: it replaced an entry with an older timestamp
Stamped(d, k, v, t) ==
    [has |-> TRUE, t |-> t, v |-> v, renewed |-> Has(d, k) /\ Lookup(d, k).ts < t]

\* the state after LRUCache(max_size) or TTLCache(ttl): the constructors store their
\* argument unchecked, so 0 is a value an instance can hold
Init ==
    /\ cls \in {"LRUCache", "TTLCache"}
    /\ \E n \in 0..MaxSize :
          /\ LRUCache_init(n).exc = ""
          /\ max_size = LRUCache_init(n).max_size
          /\ data = LRUCache_init(n).data
    /\ \E x \in 0..MaxTtl :
          /\ TTLCache_init(x).exc = ""
          /\ _ttl = TTLCache_init(x)._ttl
          /\ _data = TTLCache_init(x)._data
    /\ now = 0
    /\ op = "init" /\ key = NoKey /\ val = None /\ res = NoRes
    /\ lastUse = [k \in Keys |-> 0]
    /\ setLog = [pure |-> TRUE, order |-> <<>>]
    /\ lastSet = [k \in TTLKeys |-> NeverSet]
    /\ follows = FALSE
    /\ iterator = NoIter
    \* the parameter of the class that was not constructed plays no part
    /\ (cls = "LRUCache" => _ttl = 0)
    /\ (cls = "TTLCache" => max_size = 0)

\* ------------------------------------------------------- LRUCache actions
LRUSet(k, v, t) ==
    /\ cls = "LRUCache"
    /\ LET r == LRUCache_setitem(data, max_size, k, v, t) IN
        /\ data' = r.data
        /\ iterator' = Touched(iterator, r.mutated)
        /\ res' = [NoRes EXCEPT !.exc = r.exc, !.popped = r.popped]
        /\ lastUse' = Used(lastUse, r.data, IF r.exc = "" THEN k ELSE NoKey, t)
        /\ setLog' = IF setLog.pure THEN [setLog EXCEPT !.order = Logged(@, k)] ELSE setLog
    /\ now' = t /\ op' = "set" /\ key' = k /\ val' = v
    /\ follows' = FALSE
    /\ UNCHANGED <<cls, max_size, ttlVars>>

LRUGetItem(k, t) ==
    /\ cls = "LRUCache"
    /\ LET r == LRUCache_getitem(data, max_size, k, t) IN
        /\ data' = r.data
        /\ iterator' = Touched(iterator, r.mutated)
        /\ res' = [NoRes EXCEPT !.exc = r.exc, !.value = r.value, !.popped = r.popped]
        /\ lastUse' = Used(lastUse, r.data, IF r.exc = "" THEN k ELSE NoKey, t)
    /\ setLog' = NoLog
    /\ now' = t /\ op' = "getitem" /\ key' = k /\ val' = None
    /\ follows' = FollowsSet(k)
    /\ UNCHANGED <<cls, max_size, ttlVars>>

LRUGet(k, default, t) ==
    /\ cls = "LRUCache"
    /\ LET r == LRUCache_get(data, max_size, k, default, t) IN
        /\ data' = r.data
        /\ iterator' = Touched(iterator, r.mutated)
        /\ res' = [NoRes EXCEPT !.exc = r.exc, !.value = r.value, !.popped = r.popped]
        /\ lastUse' = Used(lastUse, r.data, IF Has(data, k) THEN k ELSE NoKey, t)
    /\ setLog' = NoLog
    /\ now' = t /\ op' = "get" /\ key' = k /\ val' = default
    /\ follows' = FollowsSet(k)
    /\ UNCHANGED <<cls, max_size, ttlVars>>

LRUDel(k, t) ==
    /\ cls = "LRUCache"
    /\ LET r == LRUCache_delitem(data, k) IN
        /\ data' = r.data
        /\ iterator' = Touched(iterator, r.mutated)
        /\ res' = [NoRes EXCEPT !.exc = r.exc]
        /\ lastUse' = Used(lastUse, r.data, NoKey, t)
    /\ setLog' = NoLog
    /\ now' = t /\ op' = "delitem" /\ key' = k /\ val' = None
    /\ follows' = FALSE
    /\ UNCHANGED <<cls, max_size, ttlVars>>

LRUContains(k, t) ==
    /\ cls = "LRUCache"
    /\ LET r == LRUCache_contains(data, k) IN
        /\ data' = r.data
        /\ res' = [NoRes EXCEPT !.flag = r.flag]
    /\ setLog' = NoLog
    /\ now' = t /\ op' = "contains" /\ key' = k /\ val' = None
    /\ follows' = FALSE
    /\ iterator' = iterator
    /\ UNCHANGED <<cls, max_size, lastUse, ttlVars>>

LRULen(t) ==
    /\ cls = "LRUCache"
    /\ res' = [NoRes EXCEPT !.value = LRUCache_len(data)]
    /\ setLog' = NoLog
    /\ now' = t /\ op' = "len" /\ key' = NoKey /\ val' = None
    /\ follows' = FALSE
    /\ iterator' = iterator
    /\ UNCHANGED <<cls, max_size, data, lastUse, ttlVars>>

LRUIter(t) ==
    /\ cls = "LRUCache"
    /\ res' = [NoRes EXCEPT !.keys = LRUCache_iter(data)]
    /\ setLog' = NoLog
    /\ now' = t /\ op' = "iter" /\ key' = NoKey /\ val' = None
    /\ follows' = FALSE
    /\ iterator' = iterator
    /\ UNCHANGED <<cls, max_size, data, lastUse, ttlVars>>

LRURepr(t) ==
    /\ cls = "LRUCache"
    /\ res' = [NoRes EXCEPT !.items = LRUCache_repr(data)]
    /\ setLog' = NoLog
    /\ now' = t /\ op' = "repr" /\ key' = NoKey /\ val' = None
    /\ follows' = FALSE
    /\ iterator' = iterator
    /\ UNCHANGED <<cls, max_size, data, lastUse, ttlVars>>

\* list(cache.items()): every pair produced is a successful __getitem__
LRUItems(t) ==
    /\ cls = "LRUCache"
    /\ LET r    == LRUCache_items(data, max_size, t)
           got  == {r.items[i][1] : i \in 1..Len(r.items)}
       IN
        /\ data' = r.data
        /\ iterator' = Touched(iterator, got # {})
        /\ res' = [NoRes EXCEPT !.exc = r.exc, !.items = r.items]
        /\ lastUse' = [x \in Keys |-> IF x \in got THEN t
                                       ELSE IF Has(r.data, x) THEN lastUse[x] ELSE 0]
    /\ setLog' = NoLog
    /\ now' = t /\ op' = "items" /\ key' = NoKey /\ val' = None
    /\ follows' = FALSE
    /\ UNCHANGED <<cls, max_size, ttlVars>>

\* it = iter(cache): the iterator is kept and stepped later, between other calls
LRUIterOpen(t) ==
    /\ cls = "LRUCache"
    /\ iterator' = odictiter_new(data)
    /\ res' = NoRes
    /\ setLog' = NoLog
    /\ now' = t /\ op' = "iter" /\ key' = NoKey /\ val' = None
    /\ follows' = FALSE
    /\ UNCHANGED <<cls, max_size, data, lastUse, ttlVars>>

\* next(it) on the kept iterator; key is the key it yields
LRUIterNext(t) ==
    /\ cls = "LRUCache"
    /\ iterator.open
    /\ LET n == odictiter_next(iterator, data) IN
        /\ iterator' = n
        /\ res' = [NoRes EXCEPT !.exc = n.exc]
        /\ key' = IF n.exc = "" THEN iterator.cur ELSE NoKey
    /\ setLog' = NoLog
    /\ now' = t /\ op' = "next" /\ val' = None
    /\ follows' = FALSE
    /\ UNCHANGED <<cls, max_size, data, lastUse, ttlVars>>

\* every call reads a clock that never runs backwards
Later == {t \in Times : t >= now}

\* ------------------------------------------------------- TTLCache actions
TTLSet(k, v, t) ==
    /\ cls = "TTLCache"
    /\ _data' = TTLCache_setitem(_data, k, v, t)
    /\ res' = NoRes
    /\ lastSet' = [lastSet EXCEPT ![k] = Stamped(_data, k, v, t)]
    /\ now' = t /\ op' = "set" /\ key' = k /\ val' = v
    /\ follows' = FALSE
    /\ UNCHANGED <<cls, _ttl, lruVars>>

TTLGetItem(k, t) ==
    /\ cls = "TTLCache"
    /\ LET r == TTLCache_getitem(_data, _ttl, k, t) IN
        /\ _data' = r.data
        /\ res' = [NoRes EXCEPT !.exc = r.exc, !.value = r.value]
    /\ now' = t /\ op' = "getitem" /\ key' = k /\ val' = None
    /\ follows' = FollowsSet(k)
    /\ UNCHANGED <<cls, _ttl, lastSet, lruVars>>

TTLGet(k, default, t) ==
    /\ cls = "TTLCache"
    /\ LET r == TTLCache_get(_data, _ttl, k, default, t) IN
        /\ _data' = r.data
        /\ res' = [NoRes EXCEPT !.exc = r.exc, !.value = r.value]
    /\ now' = t /\ op' = "get" /\ key' = k /\ val' = default
    /\ follows' = FollowsSet(k)
    /\ UNCHANGED <<cls, _ttl, lastSet, lruVars>>

TTLDel(k, t) ==
    /\ cls = "TTLCache"
    /\ LET r == TTLCache_delitem(_data, k) IN
        /\ _data' = r.data
        /\ res' = [NoRes EXCEPT !.exc = r.exc,
                                !.hit = IF Has(_data, k)
                                        THEN [has |-> TRUE, ts |-> Lookup(_data, k).ts]
                                        ELSE NoHit]
        /\ lastSet' = IF r.exc = "" THEN [lastSet EXCEPT ![k] = NeverSet] ELSE lastSet
    /\ now' = t /\ op' = "delitem" /\ key' = k /\ val' = None
    /\ follows' = FALSE
    /\ UNCHANGED <<cls, _ttl, lruVars>>

TTLContains(k, t) ==
    /\ cls = "TTLCache"
    /\ LET r == TTLCache_contains(_data, _ttl, k, t) IN
        /\ _data' = r.data
        /\ res' = [NoRes EXCEPT !.flag = r.flag]
    /\ now' = t /\ op' = "contains" /\ key' = k /\ val' = None
    /\ follows' = FALSE
    /\ UNCHANGED <<cls, _ttl, lastSet, lruVars>>

TTLLen(t) ==
    /\ cls = "TTLCache"
    /\ LET r == TTLCache_len(_data, _ttl, t) IN
        /\ _data' = r.data
        /\ res' = [NoRes EXCEPT !.value = r.value, !.swept = r.swept]
    /\ now' = t /\ op' = "len" /\ key' = NoKey /\ val' = None
    /\ follows' = FALSE
    /\ UNCHANGED <<cls, _ttl, lastSet, lruVars>>

TTLIter(t) ==
    /\ cls = "TTLCache"
    /\ LET r == TTLCache_iter(_data, _ttl, t) IN
        /\ _data' = r.data
        /\ res' = [NoRes EXCEPT !.keys = r.keys, !.swept = r.swept]
    /\ now' = t /\ op' = "iter" /\ key' = NoKey /\ val' = None
    /\ follows' = FALSE
    /\ UNCHANGED <<cls, _ttl, lastSet, lruVars>>

TTLRepr(t) ==
    /\ cls = "TTLCache"
    /\ LET r == TTLCache_repr(_data, _ttl, t) IN
        /\ _data' = r.data
        /\ res' = [NoRes EXCEPT !.items = r.items, !.swept = r.swept]
    /\ now' = t /\ op' = "repr" /\ key' = NoKey /\ val' = None
    /\ follows' = FALSE
    /\ UNCHANGED <<cls, _ttl, lastSet, lruVars>>

Next ==
    \/ \E k \in Keys, v \in Values, t \in Later : LRUSet(k, v, t)
    \/ \E k \in Keys, t \in Later : LRUGetItem(k, t)
    \/ \E k \in Keys, d \in Defaults, t \in Later : LRUGet(k, d, t)
    \/ \E k \in Keys, t \in Later : LRUDel(k, t)
    \/ \E k \in Keys, t \in Later : LRUContains(k, t)
    \/ \E t \in Later : LRULen(t)
    \/ \E t \in Later : LRUIter(t)
    \/ \E t \in Later : LRURepr(t)
    \/ \E t \in Later : LRUItems(t)
    \/ \E k \in TTLKeys, v \in Values, t \in Later : TTLSet(k, v, t)
    \/ \E k \in TTLKeys, t \in Later : TTLGetItem(k, t)
    \/ \E k \in TTLKeys, d \in Defaults, t \in Later : TTLGet(k, d, t)
    \/ \E k \in TTLKeys, t \in Later : TTLDel(k, t)
    \/ \E k \in TTLKeys, t \in Later : TTLContains(k, t)
    \/ \E t \in Later : TTLLen(t)
    \/ \E t \in Later : TTLIter(t)
    \/ \E t \in Later : TTLRepr(t)

Spec == Init /\ [][Next]_vars

\* An LRUCache whose caller holds one iterator from iter(cache) and steps it between
\* other calls on the cache.
InitIter == Init /\ cls = "LRUCache"

\* the recency order and the iterator do not depend on the clock: the calls of an
\* iteration all read the same time
Soon == {now}

NextIter ==
    \/ \E k \in Keys, v \in Values, t \in Soon : LRUSet(k, v, t)
    \/ \E k \in Keys, t \in Soon : LRUGetItem(k, t)
    \/ \E k \in Keys, d \in Defaults, t \in Soon : LRUGet(k, d, t)
    \/ \E k \in Keys, t \in Soon : LRUDel(k, t)
    \/ \E k \in Keys, t \in Soon : LRUContains(k, t)
    \/ \E t \in Soon : LRULen(t)
    \/ \E t \in Soon : LRUIterOpen(t)
    \/ \E t \in Soon : LRUIterNext(t)

SpecIter == InitIter /\ [][NextIter]_vars

\* ================================================================= claims
IsLRU == cls = "LRUCache"
IsTTL == cls = "TTLCache"

\* the last n elements of a sequence (all of it when it is shorter)
LastN(q, n) == IF Len(q) <= n THEN q ELSE SubSeq(q, Len(q) - n + 1, Len(q))

Range(q) == {q[i] : i \in 1..Len(q)}

\* d2 is d with exactly the keys of gone removed, the rest untouched and in order
RemovesOnly(d, d2, gone) ==
    /\ KeySet(d2) = KeySet(d) \ gone
    /\ d2 = SelectSeq(d, LAMBDA e : e.key \notin gone)

\* C1: an LRUCache built with max_size >= 1 never holds more than max_size entries,
\* after any call, and size() never reports more
C1_SizeBound ==
    (IsLRU /\ max_size >= 1) =>
        /\ Len(data) <= max_size
        /\ Cardinality(KeySet(data)) = Len(data)
        /\ (op = "len" => res.value <= max_size)

\* a set into a full cache has just evicted and the cache is still exactly full
C1_Witness ==
    /\ IsLRU /\ max_size = 2 /\ op = "set"
    /\ res.popped # NoKey /\ Len(data) = max_size

\* C2: after any sequence of set calls alone, the stored keys are exactly the
\* min(max_size, d) most recently set of the d distinct keys set so far
C2_RecentlySet ==
    (IsLRU /\ max_size >= 1 /\ setLog.pure) =>
        /\ KeySet(data) = Range(LastN(setLog.order, max_size))
        /\ Len(data) = IF Len(setLog.order) <= max_size THEN Len(setLog.order) ELSE max_size

\* three distinct keys were set into a cache of two, the oldest is gone
C2_Witness ==
    /\ IsLRU /\ max_size = 2 /\ setLog.pure
    /\ setLog.order = <<"b", "a", "c">>
    /\ KeySet(data) = {"a", "c"}
    /\ Lookup(data, "a").ts > 0

\* the call of this step succeeded in setting or getting key'
LRUTouch ==
    /\ IsLRU
    /\ \/ op' = "set" /\ res'.exc = ""
       \/ op' = "getitem" /\ res'.exc = ""
       \/ op' = "get" /\ Has(data, key')

\* the store order is the order of last use, least recent first
C3_Sorted ==
    IsLRU =>
        /\ \A i, j \in 1..Len(data) : i < j => lastUse[data[i].key] <= lastUse[data[j].key]
        /\ \A i \in 1..Len(data) : data[i].ts = lastUse[data[i].key]
        /\ (op = "iter" => res.keys = KeySeq(data))

\* a successful set or get puts its key last and keeps the others in their order
C3_Promotes ==
    LRUTouch =>
        /\ data' # <<>> /\ data'[Len(data')].key = key'
        /\ lastUse'[key'] = now'
        /\ KeySeq(Without(data', key'))
             = SelectSeq(KeySeq(Without(data, key')), LAMBDA x : x \in KeySet(data'))

\* C3: the stored order of an LRUCache is recency order: every set and every successful
\* get leaves its key at the most recently used end and keeps the relative order of the
\* other keys, so the keys iterate in order of their last successful set or get
C3_RecencyOrder == [](C3_Sorted) /\ [][C3_Promotes]_vars

\* a get has moved its key behind a key that was used before it
C3_Witness ==
    /\ IsLRU /\ max_size = 2 /\ op = "getitem" /\ res.exc = ""
    /\ Len(data) = 2 /\ data[2].key = key
    /\ lastUse[data[1].key] < lastUse[key]
    /\ lastUse[data[1].key] > 0

\* C4: with max_size >= 1, a set removes an entry other than its key only when the key
\* is not stored and the cache is full; then it removes exactly the head of the order
\* and appends the key; a set of a stored key removes nothing
C4_Eviction ==
    (IsLRU /\ max_size >= 1 /\ op' = "set") =>
        IF ~Has(data, key') /\ Len(data) >= max_size
        THEN /\ RemovesOnly(data, Without(data', key'), {Head(data).key})
             /\ data' = Append(Tail(data), Entry(key', val', now'))
             /\ res'.popped = Head(data).key
        ELSE /\ RemovesOnly(Without(data, key'), Without(data', key'), {})
             /\ KeySet(data') = KeySet(data) \cup {key'}
             /\ res'.popped = NoKey

C4_EvictsHeadOnly == [][C4_Eviction]_vars

\* a set of a new key into a full cache of two has evicted the head
C4_Witness ==
    /\ IsLRU /\ max_size = 2 /\ op = "set" /\ res.exc = ""
    /\ res.popped # NoKey /\ res.popped # key
    /\ Len(data) = 2 /\ data[2].key = key /\ ~Has(data, res.popped)

\* C5: a get of a stored key keeps the size and the key set, also in a full cache, and
\* returns the stored value, which stays stored: repeated gets return the same value
C5_Get ==
    (IsLRU /\ op' \in {"getitem", "get"} /\ Has(data, key')) =>
        /\ res'.exc = ""
        /\ Len(data') = Len(data)
        /\ KeySet(data') = KeySet(data)
        /\ res'.value = Lookup(data, key').value
        /\ \A k \in KeySet(data) : Lookup(data', k).value = Lookup(data, k).value
        /\ res'.popped = NoKey
        /\ ((op \in {"getitem", "get"} /\ key = key' /\ res.exc = "" /\ res.value \in Values)
              => res'.value = res.value)

C5_GetIdempotent == [][C5_Get]_vars

\* a get in a cache that holds exactly max_size entries
C5_Witness ==
    /\ IsLRU /\ max_size = 2 /\ op = "getitem" /\ res.exc = ""
    /\ Len(data) = max_size /\ data[2].key = key /\ res.value = data[2].value
    /\ data[1].ts < data[2].ts

\* the store of the constructed instance
Store == IF IsLRU THEN data ELSE _data

\* C6, the delete itself: an absent key raises KeyError and changes nothing, a stored
\* key is removed and nothing else is
C6_Delete ==
    op' = "delitem" =>
        IF Has(Store, key')
        THEN res'.exc = "" /\ RemovesOnly(Store, Store', {key'}) /\ ~Has(Store', key')
        ELSE res'.exc = "KeyError" /\ Store' = Store

\* C6, the contains issued next after a successful delete of the same key
C6_ThenAbsent ==
    (op = "delitem" /\ res.exc = "" /\ op' = "contains" /\ key' = key) => res'.flag = FALSE

\* C6: in both caches delete of a key not in the store raises KeyError and leaves the
\* store unchanged; delete of a key in the store removes only that key and a contains
\* issued next returns false
C6_DeleteStrict == [][C6_Delete /\ C6_ThenAbsent]_vars

\* a TTLCache delete that removed its key and left the other entry in place
C6_Witness ==
    /\ IsTTL /\ op = "delitem" /\ res.exc = ""
    /\ Len(_data) = 1 /\ ~Has(_data, key)

\* the last call handed a stored value (or True) back to the caller
Served ==
    \/ op = "getitem" /\ res.exc = ""
    \/ op = "get" /\ res.value \in Values
    \/ op = "contains" /\ res.flag

\* C7: whatever TTLCache get, get-or-default or contains hands back as stored is at most
\* _ttl old: the clock read by the call minus the time of the last set of the key
C7_NeverStale ==
    (IsTTL /\ Served) => (lastSet[key].has /\ now - lastSet[key].t <= _ttl)

\* a get-or-default returned a stored value at the very end of its lifetime
C7_Witness ==
    /\ IsTTL /\ _ttl >= 1 /\ op = "get" /\ res.value \in Values
    /\ now - lastSet[key].t = _ttl

\* C8, a get within _ttl of the set just made returns the value set
C8_FreshGet ==
    (IsTTL /\ op = "set" /\ op' = "getitem" /\ key' = key /\ now' - now <= _ttl)
        => (res'.exc = "" /\ res'.value = val)

\* C8, once the last set of the key is more than _ttl ago (or the key was never set or
\* was deleted since) a get raises KeyError, get-or-default and contains report it
\* absent, and the entry is out of the store
C8_Expired ==
    (IsTTL /\ op \in {"getitem", "get", "contains"}
           /\ (lastSet[key].has => now - lastSet[key].t > _ttl)) =>
        /\ ~Has(_data, key)
        /\ (op = "getitem" => res.exc = "KeyError")
        /\ (op = "get" => res.value = val)
        /\ (op = "contains" => res.flag = FALSE)

\* C8: in a TTLCache set(k, v) followed by get(k) returns v; once more than _ttl has
\* elapsed since the last set(k), get(k) removes the entry and raises KeyError, and
\* every later contains(k) and get(k) reports k absent until k is set again
C8_Expiry == [](C8_Expired) /\ [][C8_FreshGet]_vars

\* a get found its key expired
C8_Witness ==
    /\ IsTTL /\ op = "getitem" /\ res.exc = "KeyError"
    /\ lastSet[key].has /\ now - lastSet[key].t > _ttl
    /\ ~Has(_data, key)

\* C9: a TTLCache set stores the new value with the time of this set, whatever entry
\* it replaces, and get returns that value at every instant up to _ttl after it
C9_Refresh ==
    IsTTL =>
        /\ (op = "set" => (Has(_data, key) /\ Lookup(_data, key) = Entry(key, val, now)))
        /\ ((op \in {"getitem", "get"} /\ lastSet[key].has /\ now - lastSet[key].t <= _ttl)
              => (res.exc = "" /\ res.value = lastSet[key].v
                  /\ Has(_data, key) /\ Lookup(_data, key).ts = lastSet[key].t))

\* a get at the last instant of the window of a set that replaced an older entry:
\* counted from the replaced entry the key would have expired
C9_Witness ==
    /\ IsTTL /\ op = "getitem" /\ res.exc = ""
    /\ lastSet[key].renewed /\ now - lastSet[key].t = _ttl
    /\ res.value = lastSet[key].v

\* the entries of d that are at most ttl old at time t
Fresh(d, ttl, t) == SelectSeq(d, LAMBDA e : t - e.ts <= ttl)

\* C10, the sweep of size(), iterate() and describe(): exactly the entries older than
\* _ttl at the one clock reading go, and the result is taken from what is left
C10_Sweep ==
    (IsTTL /\ op' \in {"len", "iter", "repr"}) =>
        /\ _data' = Fresh(_data, _ttl, now')
        /\ Range(res'.swept) = KeySet(_data) \ KeySet(_data')
        /\ (op' = "len" => res'.value = Len(_data'))
        /\ (op' = "iter" => res'.keys = KeySeq(_data'))
        /\ (op' = "repr" => res'.items = ItemSeq(_data'))

\* C10, what they report: no key whose last set is more than _ttl ago
C10_Reported ==
    (IsTTL /\ op \in {"len", "iter", "repr"}) =>
        /\ \A i \in 1..Len(_data) :
              /\ now - _data[i].ts <= _ttl
              /\ lastSet[_data[i].key].has /\ now - lastSet[_data[i].key].t <= _ttl
        /\ (op = "len" => res.value = Cardinality({k \in TTLKeys : Has(_data, k)}))
        /\ (op = "iter" => Range(res.keys) = KeySet(_data))

\* C10: TTLCache size() removes every entry older than _ttl at its clock reading and
\* no other and returns the number left; iterate() and describe() sweep the same way,
\* so count and keys never include an expired entry
C10_SweepFirst == [](C10_Reported) /\ [][C10_Sweep]_vars

\* size() swept one expired entry, kept the fresh one and returned 1
C10_Witness ==
    /\ IsTTL /\ op = "len" /\ res.value = 1
    /\ Len(res.swept) = 1 /\ Len(_data) = 1
    /\ now - _data[1].ts <= _ttl

\* C11, one step: the call before this one set key to val and returned, this one is a
\* get or get-or-default of the same key, and in a TTLCache the clock moved on by at
\* most _ttl between the two readings
C11_Step ==
    (/\ op = "set" /\ res.exc = ""
     /\ op' \in {"getitem", "get"} /\ key' = key
     /\ (IsTTL => now' - now <= _ttl))
        => (res'.exc = "" /\ res'.value = val /\ Has(Store', key'))

\* C11: in both caches a set(k, v) that returned, followed at once by get(k), with no
\* other call and no clock advance beyond _ttl in between, returns v
C11_RoundTrip == [][C11_Step]_vars

\* a get right after a set that overwrote a stored value in a full LRUCache: the
\* other stored key holds the other value
C11_Witness ==
    /\ IsLRU /\ max_size = 2 /\ follows /\ op = "getitem"
    /\ res.exc = "" /\ res.value = 2
    /\ Len(data) = 2 /\ data[2].key = key /\ data[1].value = 1

\* C12, one get-or-default step: no exception; the stored value where the strict get
\* succeeds, else the default passed in; the LRUCache store is unchanged for an absent
\* key, the TTLCache store loses exactly the expired entry of the key
C12_Step ==
    op' = "get" =>
        /\ res'.exc = ""
        /\ IsLRU =>
              IF Has(data, key')
              THEN res'.value = Lookup(data, key').value
              ELSE res'.value = val' /\ data' = data
        /\ IsTTL =>
              IF Has(_data, key')
              THEN IF now' - Lookup(_data, key').ts <= _ttl
                   THEN res'.value = Lookup(_data, key').value /\ _data' = _data
                   ELSE /\ res'.value = val'
                        /\ RemovesOnly(_data, _data', {key'})
              ELSE res'.value = val' /\ _data' = _data

\* C12: get-or-default never raises on either cache: it returns the stored value when
\* the strict get would succeed and the caller's default when it would raise KeyError;
\* on an absent key the LRUCache store and order stay as they are, on an expired
\* TTLCache key that entry is removed
C12_GetOrDefault == [][C12_Step]_vars

\* a TTLCache get-or-default met an expired entry: it handed back the caller's default
\* and the entry is gone, the other key's entry is still there
C12_Witness ==
    /\ IsTTL /\ op = "get" /\ val = NumVals + 1 /\ res.value = val
    /\ lastSet[key].has /\ now - lastSet[key].t > _ttl
    /\ ~Has(_data, key) /\ Len(_data) = 1

\* C13, one step of contains, size or iterate on an LRUCache: the store is the same
\* sequence of entries afterwards, and the answer is read off it
C13_Step ==
    (IsLRU /\ op' \in {"contains", "len", "iter"}) =>
        /\ data' = data
        /\ (op' = "contains" => res'.flag = Has(data, key'))
        /\ (op' = "len" => res'.value = Len(data))
        /\ (op' = "iter" => res'.keys = KeySeq(data))

\* C13: LRUCache contains(k) returns whether k is stored and leaves keys, values and
\* recency order unchanged; size() and obtaining iterate() change nothing either
C13_PureReads == [][C13_Step]_vars

\* contains answered True for the least recently used key of a full cache, and the
\* key is still the least recently used
C13_Witness ==
    /\ IsLRU /\ max_size = 2 /\ op = "contains" /\ res.flag
    /\ Len(data) = 2 /\ data[1].key = key
    /\ lastUse[data[1].key] < lastUse[data[2].key]

\* C14: iterate() has snapshot semantics: the keys an iterator produces are the keys
\* stored when iterate() was called, in that order, whatever set, get or delete runs
\* before it is exhausted, and stepping it never fails
C14_Snapshot ==
    IsLRU =>
        /\ iterator.exc # "RuntimeError"
        /\ Len(iterator.out) <= Len(iterator.snap)
        /\ iterator.out = SubSeq(iterator.snap, 1, Len(iterator.out))
        /\ (iterator.exc = "StopIteration" => iterator.out = iterator.snap)

\* C15: LRUCache set never fails, whatever max_size the constructor accepted, also on
\* the empty cache built with max_size = 0
C15_SetTotal == (IsLRU /\ op = "set") => res.exc = ""

\* C16: no LRUCache with max_size <= 0 and no TTLCache with ttl <= 0 exists: the
\* constructor rejects such an argument
C16_Rejected ==
    /\ (IsLRU => max_size >= 1)
    /\ (IsTTL => _ttl >= 1)

\* the entry under key' is in the TTLCache store and older than _ttl at the reading
\* of this step
ExpiredStored ==
    /\ IsTTL /\ Has(_data, key')
    /\ now' - Lookup(_data, key').ts > _ttl

\* C17 as stated: delete of a key whose entry is stored but older than ttl raises
\* KeyError, like delete of a key never set
C17_ExpiredDeleteFails ==
    [][(op' = "delitem" /\ ExpiredStored) => res'.exc = "KeyError"]_vars

\* C17, one TTLCache delete step: KeyError exactly when no entry is stored under the
\* key; a stored entry, expired or not, is removed and nothing else is
C17_Step ==
    (IsTTL /\ op' = "delitem") =>
        /\ (res'.exc = "KeyError") = ~Has(_data, key')
        /\ (res'.exc = "") = Has(_data, key')
        /\ (ExpiredStored => (res'.exc = "" /\ RemovesOnly(_data, _data', {key'})))
        /\ (~Has(_data, key') => _data' = _data)

\* C17, amended: TTLCache delete does not look at the age of the entry: delete of a
\* key whose entry is stored but older than ttl succeeds and removes it; only a key
\* with no stored entry (never set, deleted, or already dropped by a get, contains or
\* sweep) raises KeyError
C17_DeleteIgnoresAge == [][C17_Step]_vars

\* a delete returned normally although the entry it removed was older than _ttl
C17_Witness ==
    /\ IsTTL /\ op = "delitem" /\ res.exc = ""
    /\ res.hit.has /\ now - res.hit.ts > _ttl
    /\ ~Has(_data, key)

\* C18: listing the pairs of a non-empty LRUCache through the inherited items()
\* returns without error and yields every stored key once with its stored value
C18_Items ==
    (IsLRU /\ op = "items" /\ data # <<>>) =>
        /\ res.exc = ""
        /\ Len(res.items) = Len(data)
        /\ Range(res.items) = Range(ItemSeq(data))

\* C19, one step of a single-key TTLCache call: every entry under another key stays,
\* with its value, timestamp and place; the entry under the key goes only in a get or
\* contains that finds it expired, or in a delete; a set always stores its key
C19_Step ==
    (IsTTL /\ op' \in {"getitem", "get", "contains", "set", "delitem"}) =>
        /\ Without(_data', key') = Without(_data, key')
        /\ (op' \in {"getitem", "get", "contains"} =>
              IF ExpiredStored
              THEN ~Has(_data', key')
              ELSE _data' = _data)
        /\ (op' = "set" =>
              /\ Has(_data', key') /\ res'.exc = ""
              /\ Len(_data') = IF Has(_data, key') THEN Len(_data) ELSE Len(_data) + 1)
        /\ (op' = "delitem" => ~Has(_data', key'))

\* C19: TTLCache get, get-or-default and contains remove at most the entry of their
\* key, and only when it is expired; set and delete change only the entry of their
\* key; another key's expired entry stays stored, and set never evicts
C19_LazyLocal == [][C19_Step]_vars

\* a get found its own key expired and removed it; the other key's entry, expired as
\* well, is still in the store
C19_Witness ==
    /\ IsTTL /\ op = "getitem" /\ res.exc = "KeyError"
    /\ lastSet[key].has /\ ~Has(_data, key)
    /\ Len(_data) = 1 /\ now - _data[1].ts > _ttl

\* C20: at one clock reading, for every stored key, get succeeds iff contains is true
\* iff the sweep keeps the key iff age <= _ttl: age = _ttl is live for all three (also
\* age 0 with _ttl = 0), age > _ttl is expired for all three
C20_OnePredicate ==
    IsTTL =>
        \A i \in 1..Len(_data), t \in Later :
            LET k    == _data[i].key
                live == t - _data[i].ts <= _ttl
            IN  /\ (TTLCache_getitem(_data, _ttl, k, t).exc = "") = live
                /\ (TTLCache_get(_data, _ttl, k, None, t).value \in Values) = live
                /\ TTLCache_contains(_data, _ttl, k, t).flag = live
                /\ Has(TTLCache_expire_all(_data, _ttl, t), k) = live
                /\ (\E j \in 1..Len(TTLCache_iter(_data, _ttl, t).keys) :
                        TTLCache_iter(_data, _ttl, t).keys[j] = k) = live

\* with _ttl = 0, contains answered True for an entry set at this very reading,
\* while the other stored entry is older
C20_Witness ==
    /\ IsTTL /\ _ttl = 0 /\ op = "contains" /\ res.flag
    /\ Has(_data, key) /\ Lookup(_data, key).ts = now
    /\ Len(_data) = 2 /\ _data[1].ts < now
====
